---- MODULE Spec2Model ----
(***************************************************************************)
(* Model of the call-chain tracer of NAVI (src/tools/trace-call-chain.ts)  *)
(* together with the file enumeration and language detection it uses       *)
(* (src/utils/language-detection.ts).                                      *)
(*                                                                         *)
(* Source text is modelled lexically: a file is a sequence of lines and a  *)
(* line is a sequence of tokens.  A token is a word (\w+) or a punctuation *)
(* mark.  Whitespace between tokens is not represented, so \s* and \s+ of  *)
(* the regular expressions of the code hold between any two tokens, and \b *)
(* holds at both ends of every word.  All words are lower case, so the 'i' *)
(* flag of the declaration patterns changes nothing.                       *)
(***************************************************************************)
EXTENDS Integers, Sequences, FiniteSets, TLC

(***************************************************************************)
(* Bounds of the model.                                                    *)
(***************************************************************************)
MaxMaxDepth == 3
MaxTicks == 3

(***************************************************************************)
(* Program constants.                                                      *)
(***************************************************************************)
timeout == 30000
FallbackWindow == 50
DefaultMaxDepth == 5

\* One step of the wall clock: half the timeout, so that an elapsed time
\* exactly equal to the timeout is one of the cases.
TickMs == timeout \div 2

Null == 0

(***************************************************************************)
(* Tokens.                                                                 *)
(***************************************************************************)
Punct == {"(", ")", "{", "}", ";", ":", "=", "=>", ".", ","}

IsWord(t) == t # "" /\ t \notin Punct

AnyName == "(\\w+)"

NoMatch == ""

\* A regex name fragment: the escaped functionName, or the group (\w+).
NameOK(t, nm) == IF nm = AnyName THEN IsWord(t) ELSE t = nm

Min(S) == CHOOSE x \in S : \A y \in S : x <= y
Max(S) == CHOOSE x \in S : \A y \in S : x >= y

RECURSIVE Flatten(_)
Flatten(ss) == IF ss = <<>> THEN <<>> ELSE Head(ss) \o Flatten(Tail(ss))

\* The token at position i of line l, or "" past either end.
Tok(l, i) == IF i \in 1..Len(l) THEN l[i] ELSE ""

\* The position of the first ")" after position p: the end of \([^)]*\).
FirstClose(l, p) ==
  LET ks == {k \in (p + 1)..Len(l) : l[k] = ")"}
  IN  IF ks = {} THEN 0 ELSE Min(ks)

(***************************************************************************)
(* String.prototype.toLowerCase on the language names that occur.          *)
(***************************************************************************)
ToLowerCase(s) ==
  CASE s = "JavaScript" -> "javascript"
    [] s = "TypeScript" -> "typescript"
    [] s = "Python" -> "python"
    [] s = "Go" -> "go"
    [] s = "Java" -> "java"
    [] s = "Unknown" -> "unknown"
    [] s = "Rust" -> "rust"
    [] s = "C++" -> "c++"
    [] s = "C" -> "c"
    [] s = "C#" -> "c#"
    [] OTHER -> s

(***************************************************************************)
(* getFunctionDeclarationPatterns: one operator per regular expression.    *)
(* Each gives the text captured for the name at the leftmost match, or     *)
(* NoMatch.                                                                *)
(***************************************************************************)
\* \b(?:function|async\s+function)\s+NAME\s*\(
PatJsFunction(l, nm) ==
  LET is == {i \in 1..Len(l) : /\ l[i] = "function"
                               /\ NameOK(Tok(l, i + 1), nm)
                               /\ Tok(l, i + 2) = "("}
  IN  IF is = {} THEN NoMatch ELSE l[Min(is) + 1]

\* \bNAME\s*[:=]\s*(?:async\s+)?\([^)]*\)\s*=>
PatJsArrow(l, nm) ==
  LET open(i) == IF Tok(l, i + 2) = "async" THEN i + 3 ELSE i + 2
      is == {i \in 1..Len(l) : /\ NameOK(l[i], nm)
                               /\ Tok(l, i + 1) \in {":", "="}
                               /\ Tok(l, open(i)) = "("
                               /\ FirstClose(l, open(i)) # 0
                               /\ Tok(l, FirstClose(l, open(i)) + 1) = "=>"}
  IN  IF is = {} THEN NoMatch ELSE l[Min(is)]

\* \bNAME\s*\([^)]*\)\s*{
PatJsMethod(l, nm) ==
  LET is == {i \in 1..Len(l) : /\ NameOK(l[i], nm)
                               /\ Tok(l, i + 1) = "("
                               /\ FirstClose(l, i + 1) # 0
                               /\ Tok(l, FirstClose(l, i + 1) + 1) = "{"}
  IN  IF is = {} THEN NoMatch ELSE l[Min(is)]

\* ^\s*(?:async\s+)?def\s+NAME\s*\(
PatPython(l, nm) ==
  LET s == IF Tok(l, 1) = "async" THEN 2 ELSE 1
  IN  IF /\ Tok(l, s) = "def"
         /\ NameOK(Tok(l, s + 1), nm)
         /\ Tok(l, s + 2) = "("
      THEN l[s + 1] ELSE NoMatch

JavaModifiers == {"public", "private", "protected", "static", "final", "abstract"}

\* \b(?:public|private|protected|static|final|abstract)\s+.*\s+NAME\s*\(
\* (.* is greedy: the capture is the last name followed by "(")
PatJava(l, nm) ==
  LET ks == {k \in 1..Len(l) : /\ NameOK(l[k], nm)
                               /\ Tok(l, k + 1) = "("
                               /\ \E i \in 1..(k - 2) : l[i] \in JavaModifiers}
  IN  IF ks = {} THEN NoMatch ELSE l[Max(ks)]

\* ^\s*func\s+(?:\([^)]*\)\s+)?NAME\s*\(
PatGo(l, nm) ==
  LET n == IF Tok(l, 2) = "(" /\ FirstClose(l, 2) # 0
           THEN FirstClose(l, 2) + 1 ELSE 2
  IN  IF /\ Tok(l, 1) = "func"
         /\ NameOK(Tok(l, n), nm)
         /\ Tok(l, n + 1) = "("
      THEN l[n] ELSE NoMatch

\* \bNAME\s*\(
PatDefault(l, nm) ==
  LET is == {i \in 1..Len(l) : NameOK(l[i], nm) /\ Tok(l, i + 1) = "("}
  IN  IF is = {} THEN NoMatch ELSE l[Min(is)]

\* The captures of the patterns of a language on line l, in pattern order.
getFunctionDeclarationPatterns(language, l, nm) ==
  LET lang == ToLowerCase(language)
  IN  CASE lang \in {"typescript", "javascript"} ->
             <<PatJsFunction(l, nm), PatJsArrow(l, nm), PatJsMethod(l, nm)>>
        [] lang = "python" -> <<PatPython(l, nm)>>
        [] lang = "java" -> <<PatJava(l, nm)>>
        [] lang = "go" -> <<PatGo(l, nm)>>
        [] OTHER -> <<PatDefault(l, nm)>>

\* for (const pattern of patterns) { const match = line.match(pattern); if (match) ... }
\* the capture of the first pattern that matches line l, or NoMatch.
MatchDeclaration(language, l, nm) ==
  LET caps == getFunctionDeclarationPatterns(language, l, nm)
      hit == {p \in 1..Len(caps) : caps[p] # NoMatch}
  IN  IF hit = {} THEN NoMatch ELSE caps[Min(hit)]

\* The first line (1-based) of lines that matches a declaration of nm, or 0.
\* Empty lines are skipped (if (!line) continue).
FirstDeclarationLine(lines, nm, language) ==
  LET is == {i \in 1..Len(lines) :
               lines[i] # <<>> /\ MatchDeclaration(language, lines[i], nm) # NoMatch}
  IN  IF is = {} THEN 0 ELSE Min(is)

(***************************************************************************)
(* The file system.  Disk lists the entries glob can return; key is the    *)
(* position of the absolute path in the order of Array.prototype.sort.     *)
(* An entry that cannot be read as a file (a directory matched by the      *)
(* pattern, a file without read permission) has readable FALSE.  All       *)
(* extensions are lower case, no entry is hidden or excluded, and no base  *)
(* name is one of SPECIAL_FILES or contains 'script' or 'run'.             *)
(***************************************************************************)
Disk == <<
  \* /cyc: two functions that call each other
  [root |-> "/cyc", rel |-> "a.js", ext |-> "js", key |-> 1, readable |-> TRUE,
   lines |-> << <<"function", "b", "(", ")", "{", "c", "(", ")", ";", "}">>,
                <<"function", "c", "(", ")", "{", "b", "(", ")", ";", "}">> >>],
  \* /dup: several call sites of g inside h, callers in two files
  [root |-> "/dup", rel |-> "m.js", ext |-> "js", key |-> 4, readable |-> TRUE,
   lines |-> << <<"function", "m", "(", ")", "{", "g", "(", ")", ";", "}">> >>],
  [root |-> "/dup", rel |-> "h.js", ext |-> "js", key |-> 2, readable |-> TRUE,
   lines |-> << <<"function", "h", "(", ")", "{">>,
                <<"g", "(", ")", ";", "g", "(", ")", ";">>,
                <<>>,
                <<"g", "(", "x", ")", ";">>,
                <<"}">>,
                <<"function", "g", "(", "x", ")", "{", "}">>,
                <<"function", "k", "(", ")", "{", "h", "(", ")", ";", "g", "(", ")", ";", "}">> >>],
  [root |-> "/dup", rel |-> "lib", ext |-> "", key |-> 3, readable |-> FALSE,
   lines |-> <<>>],
  \* /mix: a Python file and a Go file
  [root |-> "/mix", rel |-> "n.go", ext |-> "go", key |-> 8, readable |-> TRUE,
   lines |-> << <<"func", "w", "(", ")", "{">>,
                <<"f", "(", ")">>,
                <<"}">>,
                <<"func", "f", "(", ")", "{", "}">> >>],
  [root |-> "/mix", rel |-> "m.py", ext |-> "py", key |-> 7, readable |-> TRUE,
   lines |-> << <<"def", "f", "(", ")", ":">>,
                <<"g", "(", ")">>,
                <<"def", "g", "(", "x", ")", ":">>,
                <<"if", "(", "x", ")", ":", "f", "(", ")">> >>],
  \* /ext: a file whose relative path is 'external'
  [root |-> "/ext", rel |-> "external", ext |-> "", key |-> 5, readable |-> TRUE,
   lines |-> << <<"g", "(", ")", "{", "x", "(", ")", ";", "r", "(", ")", ";", "}">> >>],
  [root |-> "/ext", rel |-> "r.js", ext |-> "js", key |-> 6, readable |-> TRUE,
   lines |-> << <<"function", "r", "(", ")", "{", "g", "(", ")", ";", "}">> >>],
  \* /self: a function that calls itself
  [root |-> "/self", rel |-> "s.js", ext |-> "js", key |-> 9, readable |-> TRUE,
   lines |-> << <<"function", "s", "(", "n", ")", "{">>,
                <<"if", "(", "n", ")", "{", "s", "(", "n", ")", ";", "}">>,
                <<"}">> >>]
>>

FileIds == 1..Len(Disk)

\* fs.access(path) succeeds
exists(path) == \E f \in FileIds : Disk[f].root = path

\* path.relative(rootPath, filePath) for a file found under rootPath
relative(rootPath, f) == Disk[f].rel

\* fs.readFile(path).split('\n'): the lines, or a failure
ReadOK(root, rel) ==
  \E f \in FileIds : Disk[f].root = root /\ Disk[f].rel = rel /\ Disk[f].readable

ReadLines(root, rel) ==
  Disk[CHOOSE f \in FileIds : Disk[f].root = root /\ Disk[f].rel = rel].lines

\* [...new Set(results)].sort()
RECURSIVE SortByKey(_)
SortByKey(S) ==
  IF S = {} THEN <<>>
  ELSE LET f == CHOOSE x \in S : \A y \in S : Disk[x].key <= Disk[y].key
       IN  <<f>> \o SortByKey(S \ {f})

\* FileSystemHelper.getAllFiles: options.extensions is given as
\* [defined |-> BOOLEAN, list |-> sequence of extensions]; an empty list of
\* extensions is truthy and yields no pattern, hence no file.
getAllFiles(rootPath, extensions) ==
  SortByKey({f \in FileIds :
               /\ Disk[f].root = rootPath
               /\ extensions.defined =>
                    \E i \in 1..Len(extensions.list) : extensions.list[i] = Disk[f].ext})

(***************************************************************************)
(* Language detection.                                                     *)
(***************************************************************************)
SUPPORTED_LANGUAGES == <<
  [name |-> "JavaScript", extensions |-> {"js", "jsx", "mjs", "cjs"}],
  [name |-> "TypeScript", extensions |-> {"ts", "tsx", "mts", "cts"}],
  [name |-> "Python", extensions |-> {"py", "pyw", "pyi"}],
  [name |-> "Go", extensions |-> {"go"}],
  [name |-> "Java", extensions |-> {"java"}],
  [name |-> "Rust", extensions |-> {"rs"}],
  [name |-> "C++", extensions |-> {"cpp", "cxx", "cc", "c++", "hpp", "hxx", "h++"}],
  [name |-> "C", extensions |-> {"c", "h"}],
  [name |-> "C#", extensions |-> {"cs"}]
>>

NoLanguage == "null"

\* detectLanguage by extension: the name of the first language that lists it
DetectByExtension(extension) ==
  LET is == {i \in 1..Len(SUPPORTED_LANGUAGES) :
               extension \in SUPPORTED_LANGUAGES[i].extensions}
  IN  IF extension = "" \/ is = {} THEN NoLanguage
      ELSE SUPPORTED_LANGUAGES[Min(is)].name

detectLanguage(f) == DetectByExtension(Disk[f].ext)

\* language?.name || 'Unknown'
NameOrUnknown(language) == IF language = NoLanguage THEN "Unknown" ELSE language

extensionMap(lang) ==
  CASE lang = "javascript" -> <<"js", "jsx", "mjs">>
    [] lang = "typescript" -> <<"ts", "tsx">>
    [] lang = "python" -> <<"py", "pyx">>
    [] lang = "java" -> <<"java">>
    [] lang = "go" -> <<"go">>
    [] lang = "rust" -> <<"rs">>
    [] lang = "cpp" -> <<"cpp", "cc", "cxx", "c++", "c">>
    [] lang = "csharp" -> <<"cs">>
    [] OTHER -> <<>>

RECURSIVE getExtensionsForLanguages(_)
getExtensionsForLanguages(languages) ==
  IF languages = <<>> THEN <<>>
  ELSE extensionMap(ToLowerCase(Head(languages)))
         \o getExtensionsForLanguages(Tail(languages))

\* The options passed to getAllFiles: extensions only if (languages)
FileOptions(languages) ==
  IF languages.defined
  THEN [defined |-> TRUE, list |-> getExtensionsForLanguages(languages.list)]
  ELSE [defined |-> FALSE, list |-> <<>>]

\* if (languages && languages.length > 0) { if (!language || !languages.includes(
\*   language.name.toLowerCase())) continue; }
PassesLanguageFilter(f, languages) ==
  (languages.defined /\ Len(languages.list) > 0) =>
     /\ detectLanguage(f) # NoLanguage
     /\ \E i \in 1..Len(languages.list) :
          languages.list[i] = ToLowerCase(detectLanguage(f))

(***************************************************************************)
(* Pure helpers of the tracer.  Line indices are 0-based as in the code;   *)
(* line i of the code is lines[i + 1] here.                                *)
(***************************************************************************)
\* extractFunctionSignature: the declaration line and at most two more lines,
\* up to the first line on which the parentheses are balanced and that holds
\* '{' or '=>'; empty lines are skipped.  The result is the token text.
RECURSIVE SignatureFrom(_, _, _, _)
SignatureFrom(allLines, lineIndex, i, parenCount) ==
  IF ~(i < Len(allLines) /\ i < lineIndex + 3) THEN <<>>
  ELSE LET line == allLines[i + 1]
           opens == Cardinality({j \in 1..Len(line) : line[j] = "("})
           closes == Cardinality({j \in 1..Len(line) : line[j] = ")"})
           pc2 == parenCount + opens - closes
           stop == pc2 = 0 /\ \E j \in 1..Len(line) : line[j] \in {"{", "=>"}
       IN  IF line = <<>> THEN SignatureFrom(allLines, lineIndex, i + 1, parenCount)
           ELSE IF stop THEN line
           ELSE line \o SignatureFrom(allLines, lineIndex, i + 1, pc2)

extractFunctionSignature(allLines, lineIndex) ==
  SignatureFrom(allLines, lineIndex, lineIndex, 0)

\* findFunctionEnd: the brace scan over the characters of line i from
\* position j on; [found, braceCount, inFunction] after the line.
RECURSIVE ScanBraces(_, _, _, _)
ScanBraces(line, j, braceCount, inFunction) ==
  IF j > Len(line)
  THEN [found |-> FALSE, braceCount |-> braceCount, inFunction |-> inFunction]
  ELSE IF line[j] = "{" THEN ScanBraces(line, j + 1, braceCount + 1, TRUE)
  ELSE IF line[j] = "}"
       THEN IF inFunction /\ braceCount - 1 = 0
            THEN [found |-> TRUE, braceCount |-> 0, inFunction |-> TRUE]
            ELSE ScanBraces(line, j + 1, braceCount - 1, inFunction)
  ELSE ScanBraces(line, j + 1, braceCount, inFunction)

RECURSIVE FunctionEndFrom(_, _, _, _, _)
FunctionEndFrom(lines, startLine, i, braceCount, inFunction) ==
  IF i >= Len(lines)
  THEN \* Math.min(startLine + 50, lines.length - 1)
       IF startLine + FallbackWindow < Len(lines) - 1
       THEN startLine + FallbackWindow ELSE Len(lines) - 1
  ELSE LET r == ScanBraces(lines[i + 1], 1, braceCount, inFunction)
       IN  IF r.found THEN i
           ELSE FunctionEndFrom(lines, startLine, i + 1, r.braceCount, r.inFunction)

\* A variant that starts its scan at the top of the file.
findFunctionEndFromTop(lines, startLine) ==
  FunctionEndFrom(lines, startLine, 0, 0, FALSE)

findFunctionEnd(lines, startLine) ==
  FunctionEndFrom(lines, startLine, startLine, 0, FALSE)

\* findFunctionDefinition: [found, startLine, endLine]
findFunctionDefinition(lines, functionName, language) ==
  LET d == FirstDeclarationLine(lines, functionName, language)
  IN  IF d = 0 THEN [found |-> FALSE, startLine |-> 0, endLine |-> 0]
      ELSE [found |-> TRUE, startLine |-> d - 1,
            endLine |-> findFunctionEnd(lines, d - 1)]

\* lines.slice(startLine, endLine + 1).join('\n'): the tokens of the body
extractFunctionBody(lines, startLine, endLine) ==
  Flatten(SubSeq(lines, startLine + 1, endLine + 1))

\* functionBody.matchAll(/\b(\w+)\s*\(/g): the captured words, in order
RECURSIVE CallTokensFrom(_, _)
CallTokensFrom(body, i) ==
  IF i > Len(body) THEN <<>>
  ELSE IF IsWord(body[i]) /\ Tok(body, i + 1) = "("
       THEN <<body[i]>> \o CallTokensFrom(body, i + 1)
       ELSE CallTokensFrom(body, i + 1)

CallTokens(body) == CallTokensFrom(body, 1)

\* findContainingFunction: scan backwards from lineIndex for the nearest line
\* that matches a declaration pattern; [found, name, line, signature]
RECURSIVE findContainingFunction(_, _, _)
findContainingFunction(lines, lineIndex, language) ==
  IF lineIndex < 0
  THEN [found |-> FALSE, name |-> NoMatch, line |-> 0, signature |-> <<>>]
  ELSE LET line == lines[lineIndex + 1]
           cap == IF line = <<>> THEN NoMatch
                  ELSE MatchDeclaration(language, line, AnyName)
       IN  IF cap # NoMatch
           THEN [found |-> TRUE, name |-> cap, line |-> lineIndex + 1,
                 signature |-> extractFunctionSignature(lines, lineIndex)]
           ELSE findContainingFunction(lines, lineIndex - 1, language)

\* A fresh CallChainNode as the object literals of the code build it.
NewNode(functionName, path, line, signature, language) ==
  [functionName |-> functionName, path |-> path, line |-> line,
   signature |-> signature, language |-> language,
   callers |-> <<>>, callees |-> <<>>, depth |-> 0]

\* The placeholder of findCalleesInFile for an unresolved callee.
Placeholder(calledFunction) ==
  NewNode(calledFunction, "external", 0, <<calledFunction, "(", ")">>, "unknown")

\* A variant that takes any call site of the name for its declaration.
searchFunctionInFileAnyCall(lines, relPath, functionName, language) ==
  LET d == FirstDeclarationLine(lines, functionName, "Unknown")
  IN  IF d = 0 THEN [found |-> FALSE, node |-> NewNode("", "", 0, <<>>, "")]
      ELSE [found |-> TRUE,
            node |-> NewNode(functionName, relPath, d,
                             extractFunctionSignature(lines, d - 1), language)]

\* searchFunctionInFile after the read: [found, node]
searchFunctionInFile(lines, relPath, functionName, language) ==
  LET d == FirstDeclarationLine(lines, functionName, language)
  IN  IF d = 0 THEN [found |-> FALSE, node |-> NewNode("", "", 0, <<>>, "")]
      ELSE [found |-> TRUE,
            node |-> NewNode(functionName, relPath, d,
                             extractFunctionSignature(lines, d - 1), language)]

\* The number of matches of \bfunctionName\s*\( on a line.
CallSites(line, functionName) ==
  Cardinality({j \in 1..Len(line) : line[j] = functionName /\ Tok(line, j + 1) = "("})

\* A variant without the search for an existing caller.
AddCallerNoDedup(callers, lines, i, functionName, language, relPath) ==
  LET cf == findContainingFunction(lines, i, language)
  IN  IF cf.found /\ cf.name # functionName
      THEN Append(callers, NewNode(cf.name, relPath, cf.line, cf.signature, language))
      ELSE callers

\* One match of findCallersInFile on line i: the callers list after it.
AddCaller(callers, lines, i, functionName, language, relPath) ==
  LET cf == findContainingFunction(lines, i, language)
  IN  IF cf.found /\ cf.name # functionName
      THEN IF \E c \in 1..Len(callers) :
                 callers[c].functionName = cf.name /\ callers[c].path = relPath
           THEN callers
           ELSE Append(callers, NewNode(cf.name, relPath, cf.line, cf.signature, language))
      ELSE callers

\* findCallersInFile after the read: the loop over the lines (i) and over the
\* matches of a line (k matches left on line i).
RECURSIVE CallersFrom(_, _, _, _, _, _, _)
CallersFrom(callers, lines, i, k, functionName, language, relPath) ==
  IF i >= Len(lines) THEN callers
  ELSE IF k = 0
       THEN IF i + 1 >= Len(lines) THEN callers
            ELSE CallersFrom(callers, lines, i + 1,
                             CallSites(lines[i + 2], functionName),
                             functionName, language, relPath)
       ELSE CallersFrom(AddCaller(callers, lines, i, functionName, language, relPath),
                        lines, i, k - 1, functionName, language, relPath)

findCallersInFile(lines, functionName, language, relPath) ==
  IF lines = <<>> THEN <<>>
  ELSE CallersFrom(<<>>, lines, 0, CallSites(lines[1], functionName),
                   functionName, language, relPath)

(***************************************************************************)
(* The state.  A request is one call of execute on the one tool instance.  *)
(* Its position is a stack of frames, one per active async function; a     *)
(* frame whose pc is in IOLabels is suspended on file-system I/O, any      *)
(* other pc is inside a synchronous section (no other request can run).    *)
(* CallChainNode objects live in heap and are named by their index, so     *)
(* that two references to one object are told from two equal objects.      *)
(***************************************************************************)
VARIABLES
  input,          \* per request: the validated arguments of execute
  st,             \* per request: "idle", "running", "done", "failed"
  stack,          \* per request: the frames of the active async functions
  ret,            \* per request: the value of the last return
  visited,        \* per request: the visited set of traceCallChain
  startTime,      \* per request: startTime of traceCallChain
  rootNode,       \* per request: rootFunction of traceCallChain (Null if none)
  result,         \* per request: what execute produced
  heap,           \* the CallChainNode objects
  functionCache,  \* this.functionCache: cache key -> node
  now,            \* Date.now()
  owner,          \* history: the request that created each node
  hits,           \* history: <<request, node>> of the lookups answered by the cache
  entered,        \* history: per request, the functions entered and I/O done
  steps,          \* history: per request, the number of steps it has taken
  cut             \* history: per request, whether a timeout check has hit, and
                  \* the nodes attached after it

vars == <<input, st, stack, ret, visited, startTime, rootNode, result, heap,
          functionCache, now, owner, hits, entered, steps, cut>>

Reqs == {1, 2}

IOLabels == {"exists", "ff_files", "ff_read", "fc_files", "fc_read", "ci_read"}

Undefined == [defined |-> FALSE, list |-> <<>>]
Langs(list) == [defined |-> TRUE, list |-> list]

NoRequest ==
  [active |-> FALSE, functionName |-> "", path |-> "", direction |-> "both",
   maxDepth |-> DefaultMaxDepth, languages |-> Undefined,
   includeExternal |-> FALSE]

FunctionNames == {"b", "c", "s", "g", "h", "k", "f", "w", "r", "zz"}
Roots == {"/cyc", "/dup", "/mix", "/ext", "/self", "/none"}
Directions == {"callers", "callees", "both"}
LanguageChoices == {Undefined, Langs(<<"javascript">>), Langs(<<"python">>), Langs(<<>>)}

\* The arguments TraceCallChainSchema accepts, within the bounds.
Inputs ==
  [active : {TRUE}, functionName : FunctionNames, path : Roots,
   direction : Directions, maxDepth : 0..MaxMaxDepth, languages : LanguageChoices,
   includeExternal : {FALSE}]

\* The arguments of two requests that run on the same corpus concurrently.
ConcInputs ==
  [active : {TRUE}, functionName : {"b", "c"}, path : {"/cyc", "/none"},
   direction : {"callers", "callees"}, maxDepth : {MaxMaxDepth - 1},
   languages : {Undefined}, includeExternal : {FALSE}]

\* The arguments of a callee trace that is run a second time with
\* includeExternal set.
PairInputs ==
  [active : {TRUE}, functionName : FunctionNames, path : Roots \ {"/none"},
   direction : {"callees", "both"}, maxDepth : {MaxMaxDepth - 1},
   languages : {Undefined, Langs(<<"javascript">>)}, includeExternal : {FALSE}]

Frame(kind, pc) ==
  [kind |-> kind, pc |-> pc, node |-> Null, depth |-> 0, name |-> "",
   path |-> "", languages |-> Undefined, language |-> "", files |-> <<>>,
   fi |-> 0, items |-> <<>>, found |-> {}, acc |-> <<>>, key |-> <<>>]

NoResult == [kind |-> "none", totalNodes |-> 0]

Top(r) == stack[r][Len(stack[r])]
AtPc(r, pc) == st[r] = "running" /\ stack[r] # <<>> /\ Top(r).pc = pc
InSync(q) == st[q] = "running" /\ Top(q).pc \notin IOLabels
\* Request r resumes: no other request is inside a synchronous section.
Runs(r, pc) == AtPc(r, pc) /\ \A q \in Reqs \ {r} : ~InSync(q)

WithTop(r, f) == [stack[r] EXCEPT ![Len(stack[r])] = f]
Popped(r) == SubSeq(stack[r], 1, Len(stack[r]) - 1)

RetId(id) == [id |-> id, list |-> <<>>]
RetList(list) == [id |-> Null, list |-> list]

InitCommon ==
  /\ st = [r \in Reqs |-> "idle"]
  /\ stack = [r \in Reqs |-> <<>>]
  /\ ret = [r \in Reqs |-> RetId(Null)]
  /\ visited = [r \in Reqs |-> {}]
  /\ startTime = [r \in Reqs |-> 0]
  /\ rootNode = [r \in Reqs |-> Null]
  /\ result = [r \in Reqs |-> NoResult]
  /\ heap = <<>>
  /\ functionCache = <<>>
  /\ now = 0
  /\ owner = <<>>
  /\ hits = {}
  /\ entered = [r \in Reqs |-> {}]
  /\ steps = [r \in Reqs |-> 0]
  /\ cut = [r \in Reqs |-> [hit |-> FALSE, after |-> {}]]

\* One request at a time.
Init ==
  /\ \E i \in Inputs : input = [r \in Reqs |-> IF r = 1 THEN i ELSE NoRequest]
  /\ InitCommon

\* One request, to be repeated after it has finished.
InitPair ==
  /\ \E i \in PairInputs : input = [r \in Reqs |-> IF r = 1 THEN i ELSE NoRequest]
  /\ InitCommon

\* Two requests on the same tool instance.
InitConc ==
  /\ input \in [Reqs -> ConcInputs]
  /\ InitCommon

(***************************************************************************)
(* execute, traceCallChain.                                                *)
(***************************************************************************)
CacheKey(functionName, searchPath) == <<functionName, searchPath>>

\* A variant that does not pass the languages on.
FindFunctionFrameNoLanguages(functionName, searchPath, languages) ==
  [Frame("findFunction", "ff_entry") EXCEPT
     !.name = functionName, !.path = searchPath]

FindFunctionFrame(functionName, searchPath, languages) ==
  [Frame("findFunction", "ff_entry") EXCEPT
     !.name = functionName, !.path = searchPath, !.languages = languages]

\* A variant that passes the depth of the parent down unchanged.
ExpandFrameSameDepth(kind, pc, node, currentDepth) ==
  [Frame(kind, pc) EXCEPT !.node = node,
                          !.depth = IF currentDepth > 0 THEN currentDepth - 1 ELSE 0]

ExpandFrame(kind, pc, node, currentDepth) ==
  [Frame(kind, pc) EXCEPT !.node = node, !.depth = currentDepth]

\* execute is called: validateArgs, then await exists(input.path)
Execute(r) ==
  /\ st[r] = "idle"
  /\ input[r].active
  /\ \A q \in Reqs : ~InSync(q)
  /\ st' = [st EXCEPT ![r] = "running"]
  /\ stack' = [stack EXCEPT ![r] = <<Frame("execute", "exists")>>]
  /\ entered' = [entered EXCEPT ![r] = @ \cup {"execute"}]
  /\ UNCHANGED <<input, ret, visited, startTime, rootNode, result, heap,
                 functionCache, now, owner, hits, cut>>

\* A variant that clears the cache before it looks at the path.
ExistsDoneClearFirst(r) ==
  /\ Runs(r, "exists")
  /\ functionCache' = <<>>
  /\ IF ~exists(input[r].path)
     THEN /\ st' = [st EXCEPT ![r] = "failed"]
          /\ stack' = [stack EXCEPT ![r] = <<>>]
          /\ result' = [result EXCEPT ![r] = [kind |-> "error", totalNodes |-> 0]]
          /\ UNCHANGED entered
     ELSE /\ stack' = [stack EXCEPT ![r] =
               << Frame("execute", "ex_wait"),
                  Frame("traceCallChain", "t_root"),
                  [Frame("findFunction", "ff_entry") EXCEPT
                     !.name = input[r].functionName, !.path = input[r].path,
                     !.languages = input[r].languages] >>]
          /\ entered' = [entered EXCEPT ![r] = @ \cup {"traceCallChain", "findFunction"}]
          /\ UNCHANGED <<st, result>>
  /\ UNCHANGED <<input, ret, visited, startTime, rootNode, heap, now, owner,
                 hits, cut>>

\* exists resolves: throw if the path is missing; else clear the cache and
\* enter traceCallChain, which enters findFunction for the root
ExistsDone(r) ==
  /\ Runs(r, "exists")
  /\ IF ~exists(input[r].path)
     THEN /\ st' = [st EXCEPT ![r] = "failed"]
          /\ stack' = [stack EXCEPT ![r] = <<>>]
          /\ result' = [result EXCEPT ![r] = [kind |-> "error", totalNodes |-> 0]]
          /\ UNCHANGED <<functionCache, entered>>
     ELSE /\ functionCache' = <<>>
          /\ stack' = [stack EXCEPT ![r] =
               << Frame("execute", "ex_wait"),
                  Frame("traceCallChain", "t_root"),
                  FindFunctionFrame(input[r].functionName, input[r].path,
                                    input[r].languages) >>]
          /\ entered' = [entered EXCEPT ![r] = @ \cup {"traceCallChain", "findFunction"}]
          /\ UNCHANGED <<st, result>>
  /\ UNCHANGED <<input, ret, visited, startTime, rootNode, heap, now, owner,
                 hits, cut>>

\* traceCallChain after findFunction returned the root
TraceRoot(r) ==
  /\ Runs(r, "t_root")
  /\ IF ret[r].id = Null
     THEN /\ stack' = [stack EXCEPT ![r] = Popped(r)]
          /\ UNCHANGED <<visited, startTime, rootNode, entered>>
     ELSE /\ rootNode' = [rootNode EXCEPT ![r] = ret[r].id]
          /\ visited' = [visited EXCEPT ![r] = {}]
          /\ startTime' = [startTime EXCEPT ![r] = now]
          /\ IF input[r].direction \in {"callers", "both"}
             THEN /\ stack' = [stack EXCEPT ![r] =
                       Append(WithTop(r, [Top(r) EXCEPT !.pc = "t_callers"]),
                              ExpandFrame("findCallers", "fc_entry", ret[r].id, 0))]
                  /\ entered' = [entered EXCEPT ![r] = @ \cup {"findCallers"}]
             ELSE /\ stack' = [stack EXCEPT ![r] =
                       Append(WithTop(r, [Top(r) EXCEPT !.pc = "t_callees"]),
                              ExpandFrame("findCallees", "fe_entry", ret[r].id, 0))]
                  /\ entered' = [entered EXCEPT ![r] = @ \cup {"findCallees"}]
  /\ UNCHANGED <<input, st, ret, result, heap, functionCache, now, owner, hits, cut>>

\* traceCallChain after findCallers(rootFunction, ...) returned
TraceCallersDone(r) ==
  /\ Runs(r, "t_callers")
  /\ IF input[r].direction = "both"
     THEN /\ stack' = [stack EXCEPT ![r] =
               Append(WithTop(r, [Top(r) EXCEPT !.pc = "t_callees"]),
                      ExpandFrame("findCallees", "fe_entry", rootNode[r], 0))]
          /\ entered' = [entered EXCEPT ![r] = @ \cup {"findCallees"}]
          /\ UNCHANGED ret
     ELSE /\ stack' = [stack EXCEPT ![r] = Popped(r)]
          /\ ret' = [ret EXCEPT ![r] = RetId(rootNode[r])]
          /\ UNCHANGED entered
  /\ UNCHANGED <<input, st, visited, startTime, rootNode, result, heap,
                 functionCache, now, owner, hits, cut>>

\* traceCallChain after findCallees(rootFunction, ...) returned
TraceCalleesDone(r) ==
  /\ Runs(r, "t_callees")
  /\ stack' = [stack EXCEPT ![r] = Popped(r)]
  /\ ret' = [ret EXCEPT ![r] = RetId(rootNode[r])]
  /\ UNCHANGED <<input, st, visited, startTime, rootNode, result, heap,
                 functionCache, now, owner, hits, entered, cut>>

(***************************************************************************)
(* The object graph of the nodes.                                          *)
(***************************************************************************)
Range(q) == {q[i] : i \in 1..Len(q)}

Children(h, id) == Range(h[id].callers) \cup Range(h[id].callees)

\* the nodes reachable from the nodes of S through callers and callees
RECURSIVE ReachFrom(_, _)
ReachFrom(h, S) ==
  LET T == S \cup UNION {Children(h, id) : id \in S}
  IN  IF T = S THEN S ELSE ReachFrom(h, T)

Reach(h, id) == IF id = Null THEN {} ELSE ReachFrom(h, {id})

\* some node reachable from id is its own descendant
Cyclic(h, id) ==
  \E n \in Reach(h, id) : Children(h, n) # {} /\ n \in ReachFrom(h, Children(h, n))

RECURSIVE SumCounts(_, _, _)
\* countNodes: 1 plus the counts of all callers and callees, on a structure
\* without cycles
RECURSIVE countNodes(_, _)
countNodes(h, id) ==
  IF id = Null THEN 0
  ELSE 1 + SumCounts(h, h[id].callers, 1) + SumCounts(h, h[id].callees, 1)

SumCounts(h, ids, i) ==
  IF i > Len(ids) THEN 0 ELSE countNodes(h, ids[i]) + SumCounts(h, ids, i + 1)

\* execute after traceCallChain returned: generateReport and countNodes walk
\* the structure recursively (a RangeError if it has a cycle, rethrown)
ExecuteFinish(r) ==
  /\ Runs(r, "ex_wait")
  /\ stack' = [stack EXCEPT ![r] = <<>>]
  /\ IF ret[r].id # Null /\ Cyclic(heap, ret[r].id)
     THEN /\ st' = [st EXCEPT ![r] = "failed"]
          /\ result' = [result EXCEPT ![r] = [kind |-> "error", totalNodes |-> 0]]
     ELSE /\ st' = [st EXCEPT ![r] = "done"]
          /\ result' = [result EXCEPT ![r] =
               [kind |-> IF ret[r].id = Null THEN "Function Not Found" ELSE "report",
                totalNodes |-> countNodes(heap, ret[r].id)]]
  /\ UNCHANGED <<input, ret, visited, startTime, rootNode, heap, functionCache,
                 now, owner, hits, entered, cut>>

(***************************************************************************)
(* findFunction.                                                           *)
(***************************************************************************)
\* entry: the cache lookup
FindFunctionEntry(r) ==
  /\ Runs(r, "ff_entry")
  /\ LET f == Top(r)
         cacheKey == CacheKey(f.name, f.path)
     IN  IF cacheKey \in DOMAIN functionCache
         THEN /\ stack' = [stack EXCEPT ![r] = Popped(r)]
              /\ ret' = [ret EXCEPT ![r] = RetId(functionCache[cacheKey])]
              /\ hits' = hits \cup {<<r, functionCache[cacheKey]>>}
         ELSE /\ stack' = [stack EXCEPT ![r] = WithTop(r, [f EXCEPT !.pc = "ff_files"])]
              /\ UNCHANGED <<ret, hits>>
  /\ UNCHANGED <<input, st, visited, startTime, rootNode, result, heap,
                 functionCache, now, owner, entered, cut>>

\* getAllFiles resolves
FindFunctionFiles(r) ==
  /\ Runs(r, "ff_files")
  /\ LET f == Top(r)
     IN  stack' = [stack EXCEPT ![r] = WithTop(r,
           [f EXCEPT !.pc = "ff_loop", !.fi = 1,
                     !.files = getAllFiles(f.path, FileOptions(f.languages))])]
  /\ UNCHANGED <<input, st, ret, visited, startTime, rootNode, result, heap,
                 functionCache, now, owner, hits, entered, cut>>

\* for (const filePath of allFiles): the language filter, then the read
FindFunctionLoop(r) ==
  /\ Runs(r, "ff_loop")
  /\ LET f == Top(r)
     IN  IF f.fi > Len(f.files)
         THEN /\ stack' = [stack EXCEPT ![r] = Popped(r)]
              /\ ret' = [ret EXCEPT ![r] = RetId(Null)]
         ELSE /\ stack' = [stack EXCEPT ![r] = WithTop(r,
                   IF PassesLanguageFilter(f.files[f.fi], f.languages)
                   THEN [f EXCEPT !.pc = "ff_read"]
                   ELSE [f EXCEPT !.fi = @ + 1])]
              /\ UNCHANGED ret
  /\ UNCHANGED <<input, st, visited, startTime, rootNode, result, heap,
                 functionCache, now, owner, hits, entered, cut>>

\* searchFunctionInFile: readFile resolves or rejects
FindFunctionRead(r) ==
  /\ Runs(r, "ff_read")
  /\ LET f == Top(r)
         file == f.files[f.fi]
         rel == relative(f.path, file)
         found == IF ReadOK(f.path, rel)
                  THEN searchFunctionInFile(ReadLines(f.path, rel), rel, f.name,
                                            NameOrUnknown(detectLanguage(file)))
                  ELSE [found |-> FALSE, node |-> NewNode("", "", 0, <<>>, "")]
         id == Len(heap) + 1
     IN  IF found.found
         THEN /\ heap' = Append(heap, found.node)
              /\ owner' = Append(owner, r)
              /\ functionCache' = (CacheKey(f.name, f.path) :> id) @@ functionCache
              /\ stack' = [stack EXCEPT ![r] = Popped(r)]
              /\ ret' = [ret EXCEPT ![r] = RetId(id)]
         ELSE /\ stack' = [stack EXCEPT ![r] = WithTop(r,
                   [f EXCEPT !.pc = "ff_loop", !.fi = @ + 1])]
              /\ UNCHANGED <<heap, owner, functionCache, ret>>
  /\ entered' = [entered EXCEPT ![r] = @ \cup {"readFile"}]
  /\ UNCHANGED <<input, st, visited, startTime, rootNode, result, now, hits, cut>>

(***************************************************************************)
(* findCallers.                                                            *)
(***************************************************************************)
\* A variant of the key without the depth.
NodeKeyWithoutDepth(h, node, currentDepth) == <<h[node].path, h[node].functionName, 0>>

NodeKey(h, node, currentDepth) == <<h[node].path, h[node].functionName, currentDepth>>

TimedOut(r) == now - startTime[r] > timeout

\* entry: the timeout, depth and cycle checks
FindCallersEntry(r) ==
  /\ Runs(r, "fc_entry")
  /\ LET f == Top(r)
         nodeKey == NodeKey(heap, f.node, f.depth)
     IN  IF TimedOut(r)
         THEN /\ stack' = [stack EXCEPT ![r] = Popped(r)]
              /\ cut' = [cut EXCEPT ![r].hit = TRUE]
              /\ UNCHANGED visited
         ELSE IF f.depth >= input[r].maxDepth \/ nodeKey \in visited[r]
         THEN /\ stack' = [stack EXCEPT ![r] = Popped(r)]
              /\ UNCHANGED <<visited, cut>>
         ELSE /\ visited' = [visited EXCEPT ![r] = @ \cup {nodeKey}]
              /\ stack' = [stack EXCEPT ![r] = WithTop(r,
                   [f EXCEPT !.pc = "fc_files", !.key = nodeKey])]
              /\ UNCHANGED cut
  /\ UNCHANGED <<input, st, ret, startTime, rootNode, result, heap,
                 functionCache, now, owner, hits, entered>>

\* getAllFiles resolves
FindCallersFiles(r) ==
  /\ Runs(r, "fc_files")
  /\ LET f == Top(r)
     IN  stack' = [stack EXCEPT ![r] = WithTop(r,
           [f EXCEPT !.pc = "fc_loop", !.fi = 1,
                     !.files = getAllFiles(input[r].path, FileOptions(input[r].languages))])]
  /\ UNCHANGED <<input, st, ret, visited, startTime, rootNode, result, heap,
                 functionCache, now, owner, hits, entered, cut>>

\* A variant that returns after the last file without removing the key.
FindCallersLoopKeepsKey(r) ==
  /\ Runs(r, "fc_loop")
  /\ LET f == Top(r)
     IN  IF f.fi > Len(f.files)
         THEN stack' = [stack EXCEPT ![r] = Popped(r)]
         ELSE stack' = [stack EXCEPT ![r] = WithTop(r,
                   IF PassesLanguageFilter(f.files[f.fi], input[r].languages)
                   THEN [f EXCEPT !.pc = "fc_read"]
                   ELSE [f EXCEPT !.fi = @ + 1])]
  /\ UNCHANGED <<input, st, ret, visited, startTime, rootNode, result, heap,
                 functionCache, now, owner, hits, entered, cut>>

\* for (const filePath of allFiles): the language filter, then the read;
\* after the last file the key is removed from the visited set
FindCallersLoop(r) ==
  /\ Runs(r, "fc_loop")
  /\ LET f == Top(r)
     IN  IF f.fi > Len(f.files)
         THEN /\ visited' = [visited EXCEPT ![r] = @ \ {f.key}]
              /\ stack' = [stack EXCEPT ![r] = Popped(r)]
         ELSE /\ stack' = [stack EXCEPT ![r] = WithTop(r,
                   IF PassesLanguageFilter(f.files[f.fi], input[r].languages)
                   THEN [f EXCEPT !.pc = "fc_read"]
                   ELSE [f EXCEPT !.fi = @ + 1])]
              /\ UNCHANGED visited
  /\ UNCHANGED <<input, st, ret, startTime, rootNode, result, heap,
                 functionCache, now, owner, hits, entered, cut>>

\* A variant in which a rejected readFile is not caught: the request fails.
FindCallersReadThrows(r) ==
  /\ Runs(r, "fc_read")
  /\ LET f == Top(r)
         file == f.files[f.fi]
         rel == relative(input[r].path, file)
     IN  IF ReadOK(input[r].path, rel)
         THEN LET callers == findCallersInFile(ReadLines(input[r].path, rel),
                                               heap[f.node].functionName,
                                               NameOrUnknown(detectLanguage(file)), rel)
              IN  /\ heap' = heap \o callers
                  /\ owner' = owner \o [i \in 1..Len(callers) |-> r]
                  /\ stack' = [stack EXCEPT ![r] = WithTop(r,
                       [f EXCEPT !.pc = "fc_children",
                                 !.items = [i \in 1..Len(callers) |-> Len(heap) + i]])]
                  /\ UNCHANGED <<st, result>>
         ELSE /\ st' = [st EXCEPT ![r] = "failed"]
              /\ stack' = [stack EXCEPT ![r] = <<>>]
              /\ result' = [result EXCEPT ![r] = [kind |-> "error", totalNodes |-> 0]]
              /\ UNCHANGED <<heap, owner>>
  /\ entered' = [entered EXCEPT ![r] = @ \cup {"readFile"}]
  /\ UNCHANGED <<input, ret, visited, startTime, rootNode, functionCache, now,
                 hits, cut>>

\* findCallersInFile: readFile resolves or rejects; the callers it returns
\* are new objects
FindCallersRead(r) ==
  /\ Runs(r, "fc_read")
  /\ LET f == Top(r)
         file == f.files[f.fi]
         rel == relative(input[r].path, file)
         callers == IF ReadOK(input[r].path, rel)
                    THEN findCallersInFile(ReadLines(input[r].path, rel),
                                           heap[f.node].functionName,
                                           NameOrUnknown(detectLanguage(file)), rel)
                    ELSE <<>>
     IN  /\ heap' = heap \o callers
         /\ owner' = owner \o [i \in 1..Len(callers) |-> r]
         /\ stack' = [stack EXCEPT ![r] = WithTop(r,
              [f EXCEPT !.pc = "fc_children",
                        !.items = [i \in 1..Len(callers) |-> Len(heap) + i]])]
  /\ entered' = [entered EXCEPT ![r] = @ \cup {"readFile"}]
  /\ UNCHANGED <<input, st, ret, visited, startTime, rootNode, result,
                 functionCache, now, hits, cut>>

\* A variant that counts the depth one too far.
AttachCallerOffByOne(h, node, caller, currentDepth) ==
  [h EXCEPT ![caller].depth = currentDepth + 2,
            ![node].callers = Append(@, caller)]

\* caller.depth = currentDepth + 1; node.callers.push(caller)
AttachCaller(h, node, caller, currentDepth) ==
  [h EXCEPT ![caller].depth = currentDepth + 1,
            ![node].callers = Append(@, caller)]

\* for (const caller of callers): attach it and recurse
FindCallersChild(r) ==
  /\ Runs(r, "fc_children")
  /\ LET f == Top(r)
     IN  IF f.items = <<>>
         THEN /\ stack' = [stack EXCEPT ![r] = WithTop(r,
                   [f EXCEPT !.pc = "fc_loop", !.fi = @ + 1])]
              /\ UNCHANGED <<heap, cut, entered>>
         ELSE LET caller == Head(f.items)
                  rest == [f EXCEPT !.items = Tail(@)]
              IN  /\ heap' = AttachCaller(heap, f.node, caller, f.depth)
                  /\ cut' = [cut EXCEPT ![r].after =
                               IF cut[r].hit THEN @ \cup {caller} ELSE @]
                  /\ IF f.depth + 1 < input[r].maxDepth
                     THEN /\ stack' = [stack EXCEPT ![r] =
                               Append(WithTop(r, rest),
                                      ExpandFrame("findCallers", "fc_entry", caller,
                                                  f.depth + 1))]
                          /\ entered' = [entered EXCEPT ![r] = @ \cup {"findCallers"}]
                     ELSE /\ stack' = [stack EXCEPT ![r] = WithTop(r, rest)]
                          /\ UNCHANGED entered
  /\ UNCHANGED <<input, st, ret, visited, startTime, rootNode, result,
                 functionCache, now, owner, hits>>

(***************************************************************************)
(* findCallees and findCalleesInFile.                                      *)
(***************************************************************************)
\* resolveFullPath: `${rootPath}/${relativePath}` (no relative path of the
\* model starts with '/'), given as the root and the path below it
resolveFullPath(relativePath, rootPath) == [root |-> rootPath, rel |-> relativePath]

\* entry: the timeout, depth and cycle checks, then findCalleesInFile
FindCalleesEntry(r) ==
  /\ Runs(r, "fe_entry")
  /\ LET f == Top(r)
         nodeKey == NodeKey(heap, f.node, f.depth)
         fullPath == resolveFullPath(heap[f.node].path, input[r].path)
     IN  IF TimedOut(r)
         THEN /\ stack' = [stack EXCEPT ![r] = Popped(r)]
              /\ cut' = [cut EXCEPT ![r].hit = TRUE]
              /\ UNCHANGED visited
         ELSE IF f.depth >= input[r].maxDepth \/ nodeKey \in visited[r]
         THEN /\ stack' = [stack EXCEPT ![r] = Popped(r)]
              /\ UNCHANGED <<visited, cut>>
         ELSE /\ visited' = [visited EXCEPT ![r] = @ \cup {nodeKey}]
              /\ stack' = [stack EXCEPT ![r] =
                   Append(WithTop(r, [f EXCEPT !.pc = "fe_wait", !.key = nodeKey]),
                          [Frame("findCalleesInFile", "ci_read") EXCEPT
                             !.path = fullPath.rel,
                             !.name = heap[f.node].functionName,
                             !.language = heap[f.node].language])]
              /\ UNCHANGED cut
  /\ UNCHANGED <<input, st, ret, startTime, rootNode, result, heap,
                 functionCache, now, owner, hits, entered>>

\* findCalleesInFile: readFile resolves or rejects; the definition, its body
\* and the call tokens of the body
CalleesRead(r) ==
  /\ Runs(r, "ci_read")
  /\ LET f == Top(r)
         ok == ReadOK(input[r].path, f.path)
         lines == ReadLines(input[r].path, f.path)
         functionDef == findFunctionDefinition(lines, f.name, f.language)
     IN  IF ok /\ functionDef.found
         THEN /\ stack' = [stack EXCEPT ![r] = WithTop(r,
                   [f EXCEPT !.pc = "ci_loop",
                             !.items = CallTokens(extractFunctionBody(lines,
                                          functionDef.startLine, functionDef.endLine))])]
              /\ UNCHANGED ret
         ELSE /\ stack' = [stack EXCEPT ![r] = Popped(r)]
              /\ ret' = [ret EXCEPT ![r] = RetList(<<>>)]
  /\ entered' = [entered EXCEPT ![r] = @ \cup {"readFile"}]
  /\ UNCHANGED <<input, st, visited, startTime, rootNode, result, heap,
                 functionCache, now, owner, hits, cut>>

\* if (calledFunction && calledFunction !== functionName && !foundCallees.has(calledFunction))
IsNewCallee(calledFunction, functionName, foundCallees) ==
  calledFunction # functionName /\ calledFunction \notin foundCallees

\* for (const match of matches): a new name is looked up with
\* findFunction(calledFunction, rootPath, [language])
CalleesLoop(r) ==
  /\ Runs(r, "ci_loop")
  /\ LET f == Top(r)
     IN  IF f.items = <<>>
         THEN /\ stack' = [stack EXCEPT ![r] = Popped(r)]
              /\ ret' = [ret EXCEPT ![r] = RetList(f.acc)]
              /\ UNCHANGED entered
         ELSE IF IsNewCallee(Head(f.items), f.name, f.found)
         THEN /\ stack' = [stack EXCEPT ![r] =
                   Append(WithTop(r, [f EXCEPT !.pc = "ci_resolved",
                                               !.found = @ \cup {Head(f.items)}]),
                          FindFunctionFrame(Head(f.items), input[r].path,
                                            Langs(<<f.language>>)))]
              /\ entered' = [entered EXCEPT ![r] = @ \cup {"findFunction"}]
              /\ UNCHANGED ret
         ELSE /\ stack' = [stack EXCEPT ![r] = WithTop(r, [f EXCEPT !.items = Tail(@)])]
              /\ UNCHANGED <<ret, entered>>
  /\ UNCHANGED <<input, st, visited, startTime, rootNode, result, heap,
                 functionCache, now, owner, hits, cut>>

\* A variant that skips a name findFunction did not resolve.
CalleesResolvedDropUnresolved(r) ==
  /\ Runs(r, "ci_resolved")
  /\ LET f == Top(r)
     IN  stack' = [stack EXCEPT ![r] = WithTop(r,
           [f EXCEPT !.pc = "ci_loop", !.items = Tail(@),
                     !.acc = IF ret[r].id # Null THEN Append(@, ret[r].id) ELSE @])]
  /\ UNCHANGED <<input, st, ret, visited, startTime, rootNode, result, heap,
                 owner, functionCache, now, hits, entered, cut>>

\* findFunction returned: push the node it found, or a new placeholder
CalleesResolved(r) ==
  /\ Runs(r, "ci_resolved")
  /\ LET f == Top(r)
         calleeNode == ret[r].id
         id == Len(heap) + 1
     IN  IF calleeNode # Null
         THEN /\ stack' = [stack EXCEPT ![r] = WithTop(r,
                   [f EXCEPT !.pc = "ci_loop", !.items = Tail(@),
                             !.acc = Append(@, calleeNode)])]
              /\ UNCHANGED <<heap, owner>>
         ELSE /\ heap' = Append(heap, Placeholder(Head(f.items)))
              /\ owner' = Append(owner, r)
              /\ stack' = [stack EXCEPT ![r] = WithTop(r,
                   [f EXCEPT !.pc = "ci_loop", !.items = Tail(@),
                             !.acc = Append(@, id)])]
  /\ UNCHANGED <<input, st, ret, visited, startTime, rootNode, result,
                 functionCache, now, hits, entered, cut>>

\* findCalleesInFile returned its callees
FindCalleesGot(r) ==
  /\ Runs(r, "fe_wait")
  /\ stack' = [stack EXCEPT ![r] = WithTop(r,
       [Top(r) EXCEPT !.pc = "fe_children", !.items = ret[r].list])]
  /\ UNCHANGED <<input, st, ret, visited, startTime, rootNode, result, heap,
                 functionCache, now, owner, hits, entered, cut>>

\* callee.depth = currentDepth + 1; node.callees.push(callee)
AttachCallee(h, node, callee, currentDepth) ==
  [h EXCEPT ![callee].depth = currentDepth + 1,
            ![node].callees = Append(@, callee)]

\* for (const callee of callees): attach it and recurse; after the last one
\* the key is removed from the visited set
FindCalleesChild(r) ==
  /\ Runs(r, "fe_children")
  /\ LET f == Top(r)
     IN  IF f.items = <<>>
         THEN /\ visited' = [visited EXCEPT ![r] = @ \ {f.key}]
              /\ stack' = [stack EXCEPT ![r] = Popped(r)]
              /\ UNCHANGED <<heap, cut, entered>>
         ELSE LET callee == Head(f.items)
                  rest == [f EXCEPT !.items = Tail(@)]
              IN  /\ heap' = AttachCallee(heap, f.node, callee, f.depth)
                  /\ cut' = [cut EXCEPT ![r].after =
                               IF cut[r].hit THEN @ \cup {callee} ELSE @]
                  /\ IF f.depth + 1 < input[r].maxDepth
                     THEN /\ stack' = [stack EXCEPT ![r] =
                               Append(WithTop(r, rest),
                                      ExpandFrame("findCallees", "fe_entry", callee,
                                                  f.depth + 1))]
                          /\ entered' = [entered EXCEPT ![r] = @ \cup {"findCallees"}]
                     ELSE /\ stack' = [stack EXCEPT ![r] = WithTop(r, rest)]
                          /\ UNCHANGED entered
                  /\ UNCHANGED visited
  /\ UNCHANGED <<input, st, ret, startTime, rootNode, result,
                 functionCache, now, owner, hits>>

(***************************************************************************)
(* Time passes while some request is suspended on I/O.                     *)
(***************************************************************************)
Tick ==
  /\ now < MaxTicks * TickMs
  /\ \E r \in Reqs : st[r] = "running"
  /\ \A r \in Reqs : ~InSync(r)
  /\ now' = now + TickMs
  /\ UNCHANGED <<input, st, stack, ret, visited, startTime, rootNode, result,
                 heap, functionCache, owner, hits, entered, cut>>

Next ==
  \/ \E r \in Reqs :
     /\ steps' = [steps EXCEPT ![r] = @ + 1]
     /\ \/ Execute(r)
        \/ ExistsDone(r)
        \/ TraceRoot(r)
        \/ TraceCallersDone(r)
        \/ TraceCalleesDone(r)
        \/ ExecuteFinish(r)
        \/ FindFunctionEntry(r)
        \/ FindFunctionFiles(r)
        \/ FindFunctionLoop(r)
        \/ FindFunctionRead(r)
        \/ FindCallersEntry(r)
        \/ FindCallersFiles(r)
        \/ FindCallersLoop(r)
        \/ FindCallersRead(r)
        \/ FindCallersChild(r)
        \/ FindCalleesEntry(r)
        \/ CalleesRead(r)
        \/ CalleesLoop(r)
        \/ CalleesResolved(r)
        \/ FindCalleesGot(r)
        \/ FindCalleesChild(r)
  \/ Tick /\ UNCHANGED steps

Spec == Init /\ [][Next]_vars

\* execute is called again once the first request has finished, with the
\* arguments of the first request and includeExternal: true
ExecuteAgain ==
  /\ st[1] \in {"done", "failed"}
  /\ ~input[2].active
  /\ input' = [input EXCEPT ![2] = [input[1] EXCEPT !.includeExternal = TRUE]]
  /\ UNCHANGED <<st, stack, ret, visited, startTime, rootNode, result, heap,
                 functionCache, now, owner, hits, entered, steps, cut>>

NextPair == Next \/ ExecuteAgain

SpecPair == InitPair /\ [][NextPair]_vars

(***************************************************************************)
(* findFunctionEnd by itself: the call is the one frame of request 1, with *)
(* lines in items and startLine in fi; the value returned is put in acc.   *)
(***************************************************************************)
MaxBraceLines == 3

BraceLines ==
  {<<>>, <<"{">>, <<"}">>, <<"{", "}">>, <<"}", "{">>, <<"x">>, <<"{", "{">>,
   <<"}", "}">>}

ShortFiles == UNION {[1..n -> BraceLines] : n \in 1..MaxBraceLines}

\* A file of n lines that opens a brace on its first line and closes it on
\* line closeAt (nowhere if closeAt = 0).
LongFile(n, closeAt) ==
  [i \in 1..n |-> IF i = 1 THEN <<"{">>
                  ELSE IF i = closeAt THEN <<"}">> ELSE <<"x">>]

LongFiles == {LongFile(n, c) : n \in {FallbackWindow + 2, FallbackWindow + 10},
                               c \in {0, FallbackWindow + 2, FallbackWindow + 10}}

\* The arguments of findFunctionEnd: 0 <= startLine < lines.length
EndInputs ==
  {[lines |-> l, startLine |-> k] : l \in ShortFiles, k \in 0..(MaxBraceLines - 1)}
    \cup {[lines |-> l, startLine |-> k] : l \in LongFiles, k \in {0, 1, MaxBraceLines}}

InitEnd ==
  /\ input = [r \in Reqs |-> NoRequest]
  /\ st = [r \in Reqs |-> "idle"]
  /\ \E i \in EndInputs :
        /\ i.startLine < Len(i.lines)
        /\ stack = [r \in Reqs |->
                      IF r = 1
                      THEN <<[Frame("findFunctionEnd", "fn_call") EXCEPT
                                !.items = i.lines, !.fi = i.startLine]>>
                      ELSE <<>>]
  /\ ret = [r \in Reqs |-> RetId(Null)]
  /\ visited = [r \in Reqs |-> {}]
  /\ startTime = [r \in Reqs |-> 0]
  /\ rootNode = [r \in Reqs |-> Null]
  /\ result = [r \in Reqs |-> NoResult]
  /\ heap = <<>>
  /\ functionCache = <<>>
  /\ now = 0
  /\ owner = <<>>
  /\ hits = {}
  /\ entered = [r \in Reqs |-> {}]
  /\ steps = [r \in Reqs |-> 0]
  /\ cut = [r \in Reqs |-> [hit |-> FALSE, after |-> {}]]

\* the call returns
FindFunctionEndCall ==
  /\ stack[1] # <<>>
  /\ Top(1).pc = "fn_call"
  /\ stack' = [stack EXCEPT ![1] = WithTop(1,
       [Top(1) EXCEPT !.pc = "fn_return",
                      !.acc = <<findFunctionEnd(Top(1).items, Top(1).fi)>>])]
  /\ UNCHANGED <<input, st, ret, visited, startTime, rootNode, result, heap,
                 functionCache, now, owner, hits, entered, steps, cut>>

NextEnd == FindFunctionEndCall

SpecEnd == InitEnd /\ [][NextEnd]_vars

(***************************************************************************)
(* The languages filter by itself, for one file extension and a languages  *)
(* argument of one entry: the call is the one frame of request 1, with the *)
(* entry in language and the extension in name; the verdict is put in acc. *)
(***************************************************************************)
\* The keys of extensionMap.
ExtensionMapKeys ==
  {"javascript", "typescript", "python", "java", "go", "rust", "cpp", "csharp"}

\* getAllFiles(path, {extensions}): the pattern **/*.ext of some extension
\* of the list matches a file with that extension
MatchesExtensions(ext, extensions) ==
  extensions.defined => \E i \in 1..Len(extensions.list) : extensions.list[i] = ext

\* if (!language || !languages.includes(language.name.toLowerCase())) continue
PassesNameCheck(language, languages) ==
  (languages.defined /\ Len(languages.list) > 0) =>
     /\ language # NoLanguage
     /\ \E i \in 1..Len(languages.list) : languages.list[i] = ToLowerCase(language)

\* A file with the extension is listed and then kept by the loop.
Admits(ext, languages) ==
  /\ MatchesExtensions(ext, FileOptions(languages))
  /\ PassesNameCheck(DetectByExtension(ext), languages)

\* The entries of a languages argument: the keys of the map and the display
\* names findCalleesInFile passes on.
LanguageEntries ==
  ExtensionMapKeys \cup {SUPPORTED_LANGUAGES[i].name : i \in 1..Len(SUPPORTED_LANGUAGES)}

FileExtensions ==
  UNION {Range(extensionMap(k)) : k \in ExtensionMapKeys}
    \cup UNION {SUPPORTED_LANGUAGES[i].extensions : i \in 1..Len(SUPPORTED_LANGUAGES)}

InitFilter ==
  /\ input = [r \in Reqs |-> NoRequest]
  /\ st = [r \in Reqs |-> "idle"]
  /\ \E k \in LanguageEntries, e \in FileExtensions :
        stack = [r \in Reqs |->
                   IF r = 1
                   THEN <<[Frame("languagesFilter", "lf_call") EXCEPT
                             !.language = k, !.name = e]>>
                   ELSE <<>>]
  /\ ret = [r \in Reqs |-> RetId(Null)]
  /\ visited = [r \in Reqs |-> {}]
  /\ startTime = [r \in Reqs |-> 0]
  /\ rootNode = [r \in Reqs |-> Null]
  /\ result = [r \in Reqs |-> NoResult]
  /\ heap = <<>>
  /\ functionCache = <<>>
  /\ now = 0
  /\ owner = <<>>
  /\ hits = {}
  /\ entered = [r \in Reqs |-> {}]
  /\ steps = [r \in Reqs |-> 0]
  /\ cut = [r \in Reqs |-> [hit |-> FALSE, after |-> {}]]

\* the file is listed and filtered
LanguagesFilterCall ==
  /\ stack[1] # <<>>
  /\ Top(1).pc = "lf_call"
  /\ stack' = [stack EXCEPT ![1] = WithTop(1,
       [Top(1) EXCEPT !.pc = "lf_return",
                      !.acc = <<Admits(Top(1).name, Langs(<<Top(1).language>>))>>])]
  /\ UNCHANGED <<input, st, ret, visited, startTime, rootNode, result, heap,
                 functionCache, now, owner, hits, entered, steps, cut>>

NextFilter == LanguagesFilterCall

SpecFilter == InitFilter /\ [][NextFilter]_vars

SpecConc == InitConc /\ [][Next]_vars

(***************************************************************************)
(* Properties.                                                             *)
(***************************************************************************)
Finished(r) == st[r] \in {"done", "failed"}

\* The files findFunction searches for the arguments i, in order.
Corpus(i) ==
  SelectSeq(getAllFiles(i.path, FileOptions(i.languages)),
            LAMBDA f : PassesLanguageFilter(f, i.languages))

\* No line of any file of the corpus matches a declaration pattern for the name.
NoDeclaration(i) ==
  \A k \in 1..Len(Corpus(i)) :
     LET f == Corpus(i)[k]
     IN  Disk[f].readable =>
           FirstDeclarationLine(Disk[f].lines, i.functionName,
                                NameOrUnknown(detectLanguage(f))) = 0

\* C1: when the root exists and no line of the language-filtered corpus
\* declares functionName, the trace has no root node, findCallers and
\* findCallees are never entered, execute does not throw, and it ends with
\* the 'Function Not Found' report and totalNodes = 0.
C1_NotFound ==
  \A r \in Reqs :
     (input[r].active /\ exists(input[r].path) /\ NoDeclaration(input[r])) =>
        /\ entered[r] \cap {"findCallers", "findCallees"} = {}
        /\ rootNode[r] = Null
        /\ st[r] # "failed"
        /\ st[r] = "done" =>
             result[r] = [kind |-> "Function Not Found", totalNodes |-> 0]

C1_Witness ==
  \E r \in Reqs :
     /\ exists(input[r].path) /\ NoDeclaration(input[r])
     /\ Len(Corpus(input[r])) > 1
     /\ "readFile" \in entered[r]
     /\ st[r] = "done"
     /\ result[r].kind = "Function Not Found"

\* C2: with maxDepth >= 1 every node of the tree of a request has
\* depth <= maxDepth, and with maxDepth = 1 the children of the root have
\* no callers and no callees.
C2_DepthBound ==
  \A r \in Reqs :
     (input[r].maxDepth >= 1 /\ rootNode[r] # Null) =>
        /\ \A n \in Reach(heap, rootNode[r]) : heap[n].depth <= input[r].maxDepth
        /\ input[r].maxDepth = 1 =>
             \A c \in Children(heap, rootNode[r]) :
                heap[c].callers = <<>> /\ heap[c].callees = <<>>

C2_Witness ==
  \E r \in Reqs :
     /\ st[r] = "done"
     /\ input[r].maxDepth = 1
     /\ input[r].direction = "both"
     /\ rootNode[r] # Null
     /\ heap[rootNode[r]].callers # <<>>
     /\ heap[rootNode[r]].callees # <<>>

\* The findCallers/findCallees invocations of a request that are expanding
\* their node (they passed the checks at their entry and have not returned).
Expanding(r) ==
  {k \in 1..Len(stack[r]) :
     /\ stack[r][k].kind \in {"findCallers", "findCallees"}
     /\ stack[r][k].pc \notin {"fc_entry", "fe_entry"}}

Labels ==
  IOLabels \cup {"ex_wait", "t_root", "t_callers", "t_callees", "ff_entry",
                 "ff_loop", "fc_entry", "fc_loop", "fc_children", "fe_entry",
                 "fe_wait", "fe_children", "ci_loop", "ci_resolved"}

RECURSIVE Power(_, _)
Power(b, e) == IF e = 0 THEN 1 ELSE b * Power(b, e - 1)

\* The most steps one expansion takes by itself, and the most children
\* one node gets, over the corpora of the model.
MaxExpansionSteps == 24
MaxFanout == 3

\* A bound on the steps of a request: the root lookup and the report, and
\* for each of the two directions at most MaxFanout^d expansions at depth d.
StepBound(i) ==
  MaxExpansionSteps * (1 + 2 * Power(MaxFanout, i.maxDepth))

\* C3: every trace terminates, also over a corpus with call cycles (a request
\* that has not finished can take a step, and it takes at most StepBound
\* steps), and at most maxDepth expansions are nested along a recursion path.
C3_Terminates ==
  \A r \in Reqs :
     /\ st[r] = "running" => \E pc \in Labels : AtPc(r, pc)
     /\ steps[r] <= StepBound(input[r])
     /\ Cardinality(Expanding(r)) <= input[r].maxDepth

\* three nested expansions over the cycle b -> c -> b of /cyc
C3_Witness ==
  \E r \in Reqs :
     /\ input[r].path = "/cyc"
     /\ input[r].maxDepth = 3
     /\ Cardinality(Expanding(r)) = 3
     /\ heap[Top(r).node].functionName = heap[rootNode[r]].functionName
     /\ Top(r).node # rootNode[r]

\* C4: tracing b over /cyc (one JavaScript file with function b(){ c(); }
\* and function c(){ b(); }) with direction callees and maxDepth 3 gives root
\* b with callees [c], c resolved to its definition in a.js, c with callees
\* [b] at depth 2, and that b without children.
C4_CycleScenario ==
  \A r \in Reqs :
     (/\ input[r].functionName = "b" /\ input[r].path = "/cyc"
      /\ input[r].direction = "callees" /\ input[r].maxDepth = 3
      /\ input[r].languages \in {Undefined, Langs(<<"javascript">>)}
      /\ Finished(r)) =>
        /\ rootNode[r] # Null
        /\ Len(heap[rootNode[r]].callees) = 1
        /\ LET c == heap[heap[rootNode[r]].callees[1]]
           IN  /\ c.functionName = "c" /\ c.path = "a.js" /\ c.line = 2
               /\ c.depth = 1
               /\ Len(c.callees) = 1
               /\ LET b2 == heap[c.callees[1]]
                  IN  /\ b2.functionName = "b" /\ b2.depth = 2
                      /\ b2.callees = <<>> /\ b2.callers = <<>>

\* C5: a lookup of one request is never answered with a node another
\* request created, and no node is part of the trees of two requests.
C5_NoSharing ==
  /\ \A h \in hits : owner[h[2]] = h[1]
  /\ \A r, q \in Reqs :
       r # q => Reach(heap, rootNode[r]) \cap Reach(heap, rootNode[q]) = {}

\* C6: no callers list holds two children with the same path and
\* functionName, however many call sites the enclosing function has.
C6_CallerDedup ==
  \A n \in 1..Len(heap) :
     \A i, j \in 1..Len(heap[n].callers) :
        i # j => \/ heap[heap[n].callers[i]].path # heap[heap[n].callers[j]].path
                 \/ heap[heap[n].callers[i]].functionName
                      # heap[heap[n].callers[j]].functionName

\* g has three call sites inside h (h.js) and one caller child for h
C6_Witness ==
  \E r \in Reqs :
     /\ st[r] = "done"
     /\ input[r].path = "/dup" /\ input[r].functionName = "g"
     /\ rootNode[r] # Null
     /\ CallSites(Disk[3].lines[2], "g") + CallSites(Disk[3].lines[4], "g") = 3
     /\ Cardinality({i \in 1..Len(heap[rootNode[r]].callers) :
                       /\ heap[heap[rootNode[r]].callers[i]].functionName = "h"
                       /\ heap[heap[rootNode[r]].callers[i]].path = "h.js"}) = 1
     /\ Len(heap[rootNode[r]].callers) = 3

\* The file of the corpus of request r that a node names, if any.
FileOf(r, n) ==
  {f \in FileIds : Disk[f].root = input[r].path /\ Disk[f].rel = heap[n].path}

IsPlaceholder(n) ==
  heap[n].path = "external" /\ heap[n].language = "unknown" /\ heap[n].line = 0

\* Every declaration of the name in the root of i is in a file that is not
\* detected as Python.
DeclaredOnlyOutsidePython(i) ==
  \A f \in FileIds :
     (Disk[f].root = i.path /\ Disk[f].readable /\ detectLanguage(f) = "Python") =>
        FirstDeclarationLine(Disk[f].lines, i.functionName, "Python") = 0

\* C7: with languages = ["python"] every node of the request that is not a
\* placeholder is defined in a file detected as Python, and a function
\* declared only in other files is not found.
C7_PythonOnly ==
  \A r \in Reqs :
     input[r].languages = Langs(<<"python">>) =>
        /\ \A n \in 1..Len(heap) :
             (owner[n] = r /\ ~IsPlaceholder(n)) =>
                /\ heap[n].language = "Python"
                /\ \E f \in FileOf(r, n) : detectLanguage(f) = "Python"
        /\ DeclaredOnlyOutsidePython(input[r]) => rootNode[r] = Null

\* w is declared in n.go only and is not found; f is traced in m.py
C7_Witness ==
  \E r \in Reqs :
     /\ input[r].languages = Langs(<<"python">>)
     /\ input[r].path = "/mix"
     /\ st[r] = "done"
     /\ \/ /\ input[r].functionName = "w"
           /\ FirstDeclarationLine(Disk[5].lines, "w", "Go") # 0
           /\ result[r].kind = "Function Not Found"
        \/ /\ input[r].functionName = "f"
           /\ CallSites(Disk[5].lines[2], "f") = 1
           /\ rootNode[r] # Null
           /\ Len(heap[rootNode[r]].callers) = 1

\* C8: once the elapsed time exceeded the timeout at an entry of findCallers
\* or findCallees, every node attached after that is and stays a leaf, and
\* the request still ends with a report over a well-formed (acyclic) tree.
C8_PartialTree ==
  \A r \in Reqs :
     /\ \A n \in cut[r].after : heap[n].callers = <<>> /\ heap[n].callees = <<>>
     /\ (cut[r].hit /\ Finished(r)) =>
           /\ st[r] = "done" /\ result[r].kind = "report"
           /\ ~Cyclic(heap, rootNode[r])

\* C9: every step of a request whose root path does not exist leaves the
\* resolution cache as it was, enters nothing but execute (no findFunction,
\* findCallers, findCallees, no file listing or read), and the request ends
\* failed with an error.
C9_MissingRoot ==
  [][\A r \in Reqs :
       (~exists(input[r].path) /\ steps'[r] # steps[r]) =>
          /\ functionCache' = functionCache
          /\ entered'[r] = {"execute"}
          /\ \/ st'[r] = "running" /\ AtPc(r, "exists")'
             \/ st'[r] = "failed" /\ result'[r].kind = "error"]_vars

\* a request fails on its missing root while the cache holds an entry of
\* the other request
C9_Witness ==
  \E r \in Reqs :
     /\ ~exists(input[r].path)
     /\ st[r] = "failed"
     /\ entered[r] = {"execute"}
     /\ functionCache # <<>>

\* The names of a token list in order of first occurrence, without those seen.
RECURSIVE FirstOccurrences(_, _)
FirstOccurrences(s, seen) ==
  IF s = <<>> THEN <<>>
  ELSE IF Head(s) \in seen THEN FirstOccurrences(Tail(s), seen)
  ELSE <<Head(s)>> \o FirstOccurrences(Tail(s), seen \cup {Head(s)})

\* C10: when findCalleesInFile returns for a function whose body it
\* isolated, the list holds exactly one child per distinct identifier
\* followed by '(' in the body other than the function's own name, in order
\* of first occurrence: the resolver's node if the name resolves, otherwise
\* a placeholder with path 'external', language 'unknown' and line 0.
C10_EveryCallee ==
  \A r \in Reqs :
     AtPc(r, "fe_wait") =>
       LET node == heap[Top(r).node]
           lines == ReadLines(input[r].path, node.path)
           functionDef == findFunctionDefinition(lines, node.functionName, node.language)
           names == FirstOccurrences(
                      CallTokens(extractFunctionBody(lines, functionDef.startLine,
                                                     functionDef.endLine)),
                      {node.functionName})
           kids == ret[r].list
       IN  IF ReadOK(input[r].path, node.path) /\ functionDef.found
           THEN /\ Len(kids) = Len(names)
                /\ \A k \in 1..Len(names) :
                     IF CacheKey(names[k], input[r].path) \in DOMAIN functionCache
                     THEN kids[k] = functionCache[CacheKey(names[k], input[r].path)]
                     ELSE heap[kids[k]] = Placeholder(names[k])
           ELSE kids = <<>>

\* the body of g in /ext/external calls x (unresolved) and r (the root)
C10_Witness ==
  \E r \in Reqs :
     /\ AtPc(r, "fe_wait")
     /\ Len(ret[r].list) = 2
     /\ IsPlaceholder(ret[r].list[1])
     /\ ret[r].list[2] = rootNode[r]

\* traceCallChain of request r has returned a root node.
Returned(r) ==
  /\ rootNode[r] # Null
  /\ AtPc(r, "ex_wait") \/ Finished(r)

\* C11: when traceCallChain returns, the root has depth 0 and every child
\* has the depth of its parent plus one, so that a node's depth is the
\* number of caller/callee edges from the root.
C11_DepthIsDistance ==
  \A r \in Reqs :
     Returned(r) =>
        /\ heap[rootNode[r]].depth = 0
        /\ \A n \in Reach(heap, rootNode[r]) :
              \A c \in Children(heap, n) : heap[c].depth = heap[n].depth + 1

\* The arguments of the findFunction call whose result request r holds:
\* the root lookup of traceCallChain or a callee lookup of findCalleesInFile.
Lookup(r) ==
  IF AtPc(r, "t_root")
  THEN [functionName |-> input[r].functionName, path |-> input[r].path,
        languages |-> input[r].languages]
  ELSE [functionName |-> Head(Top(r).items), path |-> input[r].path,
        languages |-> Langs(<<Top(r).language>>)]

\* The declaration match with the smallest (file position, line) in the
\* language-filtered corpus of the arguments i.
FirstMatch(i) ==
  LET C == Corpus(i)
      K == {k \in 1..Len(C) :
              /\ Disk[C[k]].readable
              /\ FirstDeclarationLine(Disk[C[k]].lines, i.functionName,
                                      NameOrUnknown(detectLanguage(C[k]))) # 0}
  IN  IF K = {} THEN [found |-> FALSE, path |-> "", line |-> 0, signature |-> <<>>]
      ELSE LET k == CHOOSE x \in K : \A y \in K : x <= y
               d == FirstDeclarationLine(Disk[C[k]].lines, i.functionName,
                                         NameOrUnknown(detectLanguage(C[k])))
           IN  [found |-> TRUE, path |-> Disk[C[k]].rel, line |-> d,
                signature |-> extractFunctionSignature(Disk[C[k]].lines, d - 1)]

\* C12: whenever findFunction has returned, its result is the declaration
\* match with the smallest (file position, line) in the corpus filtered by
\* the languages of that call (null if there is none), so that the result
\* is a function of the corpus and the arguments.
C12_FirstMatch ==
  \A r \in Reqs :
     (AtPc(r, "t_root") \/ AtPc(r, "ci_resolved")) =>
        LET m == FirstMatch(Lookup(r))
        IN  IF ret[r].id = Null THEN ~m.found
            ELSE /\ m.found
                 /\ heap[ret[r].id].path = m.path
                 /\ heap[ret[r].id].line = m.line
                 /\ heap[ret[r].id].signature = m.signature

\* The position in the enumeration of the corpus of request r of the file
\* that node n names.
FilePosition(r, n) == Disk[CHOOSE f \in FileOf(r, n) : TRUE].key

\* The names a node's callees must list, in order: the first occurrences of
\* the call tokens of its body, or nothing if the body cannot be isolated.
BodyCallees(r, n) ==
  IF ~ReadOK(input[r].path, heap[n].path) THEN <<>>
  ELSE LET lines == ReadLines(input[r].path, heap[n].path)
           functionDef == findFunctionDefinition(lines, heap[n].functionName,
                                                 heap[n].language)
       IN  IF ~functionDef.found THEN <<>>
           ELSE FirstOccurrences(
                  CallTokens(extractFunctionBody(lines, functionDef.startLine,
                                                 functionDef.endLine)),
                  {heap[n].functionName})

\* C13: at every point of a request the callers of every node of its tree
\* are in strictly ascending (file position, line) order, and the names of
\* its callees are the first occurrences of the call tokens of its body, in
\* that order, up to the point the attachment has reached.
C13_CorpusOrder ==
  \A r \in Reqs :
     \A n \in Reach(heap, rootNode[r]) :
        /\ \A i, j \in 1..Len(heap[n].callers) :
              i < j =>
                LET a == heap[n].callers[i]
                    b == heap[n].callers[j]
                IN  \/ FilePosition(r, a) < FilePosition(r, b)
                    \/ /\ FilePosition(r, a) = FilePosition(r, b)
                       /\ heap[a].line < heap[b].line
        /\ Len(heap[n].callees) <= Len(BodyCallees(r, n))
        /\ \A k \in 1..Len(heap[n].callees) :
              heap[heap[n].callees[k]].functionName = BodyCallees(r, n)[k]

\* The number of children attached to the nodes with index i.. that are in S.
RECURSIVE Attached(_, _, _)
Attached(h, S, i) ==
  IF i > Len(h) THEN 0
  ELSE (IF i \in S THEN Len(h[i].callers) + Len(h[i].callees) ELSE 0)
       + Attached(h, S, i + 1)

\* C14: countNodes terminates on the structure traceCallChain returned (the
\* structure has no node that is its own descendant), and totalNodes is 1
\* for the root plus one for every child attached, 0 if there is no root.
C14_TotalNodes ==
  \A r \in Reqs :
     /\ Returned(r) => ~Cyclic(heap, rootNode[r])
     /\ (Finished(r) /\ exists(input[r].path)) =>
           /\ st[r] = "done"
           /\ result[r].totalNodes =
                IF rootNode[r] = Null THEN 0
                ELSE 1 + Attached(heap, Reach(heap, rootNode[r]), 1)

\* C15: a request whose functionName is empty or whose maxDepth is smaller
\* than 1 is rejected by execute before the core runs: it enters nothing
\* but execute (no file listing, no file read) and ends failed.
C15_Validated ==
  \A r \in Reqs :
     (input[r].active /\ (input[r].functionName = "" \/ input[r].maxDepth < 1)) =>
        /\ entered[r] \subseteq {"execute"}
        /\ st[r] # "done"

\* The placeholder callee nodes of the tree of request r, as (name, depth).
PlaceholderCallees(r) ==
  {<<heap[n].functionName, heap[n].depth>> :
     n \in {m \in Reach(heap, rootNode[r]) : IsPlaceholder(m)}}

\* Both traces of a pair have finished, neither cut short by the timeout.
PairFinished ==
  /\ \A r \in Reqs : Finished(r) /\ ~cut[r].hit
  /\ input[2] = [input[1] EXCEPT !.includeExternal = TRUE]

\* C16: two traces that differ only in includeExternal (false, then true)
\* return different sets of placeholder callee nodes, on the corpora where
\* the first trace has placeholder callees.
C16_IncludeExternalMatters ==
  (PairFinished /\ PlaceholderCallees(1) # {}) =>
     PlaceholderCallees(1) # PlaceholderCallees(2)

\* The two traces of a pair return the same placeholder callees and the
\* same report metadata on every corpus of the model.
IncludeExternalIgnored ==
  PairFinished =>
     /\ PlaceholderCallees(1) = PlaceholderCallees(2)
     /\ result[1] = result[2]

\* The invocations of findCallers and findCallees on the stack of request r.
Invocations(r) ==
  {k \in 1..Len(stack[r]) : stack[r][k].kind \in {"findCallers", "findCallees"}}

\* C17: a node on the recursion path whose (path, functionName) is that of
\* one of its ancestors on the path receives no children.
C17_CycleGuard ==
  \A r \in Reqs :
     \A k, j \in Invocations(r) :
        (/\ k < j
         /\ heap[stack[r][k].node].path = heap[stack[r][j].node].path
         /\ heap[stack[r][k].node].functionName = heap[stack[r][j].node].functionName)
        => Children(heap, stack[r][j].node) = {}

\* C18: at every point the visited set of a request holds exactly the keys
\* (path, functionName, depth) of the invocations of findCallers and
\* findCallees that are on its stack and have passed their entry checks; it
\* is empty between the phases and when traceCallChain has returned.
C18_VisitedIsStack ==
  \A r \in Reqs :
     /\ visited[r] = {NodeKey(heap, stack[r][k].node, stack[r][k].depth) :
                        k \in Expanding(r)}
     /\ Cardinality(visited[r]) = Cardinality(Expanding(r))
     /\ (AtPc(r, "t_callers") \/ AtPc(r, "t_callees") \/ AtPc(r, "ex_wait")
           \/ Finished(r)) => visited[r] = {}

\* a trace in both directions has ended with an empty set after it held
\* the keys of nested invocations down to depth 2
C18_Witness ==
  \E r \in Reqs :
     /\ st[r] = "done"
     /\ input[r].direction = "both"
     /\ visited[r] = {}
     /\ \E n \in Reach(heap, rootNode[r]) :
           heap[n].depth = 3 /\ heap[n].path = heap[rootNode[r]].path

\* The files of the corpus of request r, of the detected language, that
\* declare the name.
DeclaringFiles(r, nm, language) ==
  {f \in FileIds :
     /\ Disk[f].root = input[r].path /\ Disk[f].readable
     /\ NameOrUnknown(detectLanguage(f)) = language
     /\ FirstDeclarationLine(Disk[f].lines, nm, language) # 0}

\* C19: when findCalleesInFile holds the result of findFunction for a
\* callee name that is declared in a corpus file of the caller's own
\* language, the result is a node for such a declaration (its relative
\* path and line), not null, so that no placeholder is attached.
C19_SameLanguageResolves ==
  \A r \in Reqs :
     AtPc(r, "ci_resolved") =>
        LET D == DeclaringFiles(r, Head(Top(r).items), Top(r).language)
        IN  D # {} =>
              /\ ret[r].id # Null
              /\ \E f \in D :
                    /\ heap[ret[r].id].path = Disk[f].rel
                    /\ heap[ret[r].id].line =
                         FirstDeclarationLine(Disk[f].lines, Head(Top(r).items),
                                              Top(r).language)

\* The positions at which node c is attached below the nodes of S.
Positions(h, S, c) ==
  UNION {{<<n, "callers", i>> : i \in {x \in 1..Len(h[n].callers) :
                                               h[n].callers[x] = c}} : n \in S}
    \cup UNION {{<<n, "callees", i>> : i \in {x \in 1..Len(h[n].callees) :
                                               h[n].callees[x] = c}} : n \in S}

\* C20: in the structure of a request no node is attached at more than one
\* position, the root is attached nowhere, and no node is its own
\* descendant.
C20_TreeByIdentity ==
  \A r \in Reqs :
     rootNode[r] # Null =>
        LET S == Reach(heap, rootNode[r])
        IN  /\ \A c \in S : Cardinality(Positions(heap, S, c)) <= 1
            /\ Positions(heap, S, rootNode[r]) = {}
            /\ ~Cyclic(heap, rootNode[r])

\* C21: the step of an invocation of findCallers or findCallees that is at
\* its entry when the time elapsed since the start of the trace is greater
\* than or equal to the timeout returns at once: nothing is attached, no
\* file is listed or read.
C21_TimeoutInclusive ==
  [][\A r \in Reqs :
       (/\ AtPc(r, "fc_entry") \/ AtPc(r, "fe_entry")
        /\ now - startTime[r] >= timeout
        /\ steps'[r] # steps[r])
       => /\ stack'[r] = Popped(r)
          /\ heap' = heap
          /\ visited'[r] = visited[r]]_vars

\* The body of C22 for request r.
RespectsDirection(r) ==
  LET S == Reach(heap, rootNode[r])
      kinds == {stack[r][k].kind : k \in 1..Len(stack[r])}
  IN  /\ input[r].direction = "callers" => \A n \in S : heap[n].callees = <<>>
      /\ input[r].direction = "callees" => \A n \in S : heap[n].callers = <<>>
      /\ \A n \in S :
            /\ \A c \in Range(heap[n].callers) : heap[c].callees = <<>>
            /\ \A c \in Range(heap[n].callees) : heap[c].callers = <<>>
      /\ ("findCallees" \in kinds \/ \E n \in S : heap[n].callees # <<>>)
            => "findCallers" \notin kinds

\* C22: with direction callers no node has callees, with direction callees
\* no node has callers, a node reached through a caller edge has no callees
\* and a node reached through a callee edge has no callers, and no
\* invocation of findCallers is active once the callees phase has started.
C22_Direction ==
  \A r \in Reqs : rootNode[r] # Null => RespectsDirection(r)

\* The call of findFunctionEnd has returned.
EndReturned == stack[1] # <<>> /\ Top(1).pc = "fn_return"

\* The characters of the lines from index i (0-based) on, each with the
\* index of its line.
RECURSIVE CharsFrom(_, _)
CharsFrom(lines, i) ==
  IF i >= Len(lines) THEN <<>>
  ELSE [j \in 1..Len(lines[i + 1]) |-> <<i, lines[i + 1][j]>>] \o CharsFrom(lines, i + 1)

\* The brace balance after the first k characters.
Balance(cs, k) ==
  Cardinality({j \in 1..k : cs[j][2] = "{"}) - Cardinality({j \in 1..k : cs[j][2] = "}"})

\* The characters at which the balance, having been positive, is zero.
BackToZero(cs) ==
  {k \in 1..Len(cs) : Balance(cs, k) = 0 /\ \E j \in 1..(k - 1) : Balance(cs, j) > 0}

\* C23: findFunctionEnd returns the line of the first character from
\* startLine on at which the brace balance, having been positive, is zero
\* again; in every case the result lies in [startLine, lines.length - 1].
C23_FunctionEnd ==
  EndReturned =>
     LET lines == Top(1).items
         startLine == Top(1).fi
         endLine == Top(1).acc[1]
         cs == CharsFrom(lines, startLine)
     IN  /\ BackToZero(cs) # {} => endLine = cs[Min(BackToZero(cs))][1]
         /\ startLine <= endLine /\ endLine <= Len(lines) - 1

\* the balance is negative before it is positive, and the end is found on a
\* later line than startLine, which is not the first line
C23_Witness ==
  /\ EndReturned
  /\ Top(1).fi > 0
  /\ Top(1).acc[1] > Top(1).fi
  /\ LET cs == CharsFrom(Top(1).items, Top(1).fi)
     IN  BackToZero(cs) # {} /\ Balance(cs, 1) < 0

\* C24: the end line found is at most 50 lines after startLine.
C24_WindowOf50 ==
  EndReturned => Top(1).acc[1] - Top(1).fi <= FallbackWindow

\* The nodes of the list have pairwise distinct names.
DistinctNames(ids) ==
  \A i, j \in 1..Len(ids) :
     i # j => heap[ids[i]].functionName # heap[ids[j]].functionName

\* C25: the callees findCalleesInFile returns have pairwise distinct names,
\* none of them the function's own name, and no callees list of a node of
\* the tree holds two children with the same functionName.
C25_DistinctCallees ==
  \A r \in Reqs :
     /\ AtPc(r, "fe_wait") =>
           /\ DistinctNames(ret[r].list)
           /\ \A i \in 1..Len(ret[r].list) :
                 heap[ret[r].list[i]].functionName # heap[Top(r).node].functionName
     /\ \A n \in Reach(heap, rootNode[r]) : DistinctNames(heap[n].callees)

\* Control keywords of the languages of the corpora.
ControlKeywords == {"if", "for", "while", "switch"}

\* C26: no callee node of a trace is named by a control keyword.
C26_NoKeywordCallees ==
  \A r \in Reqs :
     \A n \in Reach(heap, rootNode[r]) :
        \A c \in Range(heap[n].callees) : heap[c].functionName \notin ControlKeywords

\* The root of request i has an entry that cannot be read.
HasUnreadable(i) == \E f \in FileIds : Disk[f].root = i.path /\ ~Disk[f].readable

\* The (functionName, path) of the callers of nm in the readable files of
\* the list from position k on, in order.
RECURSIVE CallersOver(_, _, _)
CallersOver(files, k, nm) ==
  IF k > Len(files) THEN <<>>
  ELSE (IF Disk[files[k]].readable
        THEN LET cs == findCallersInFile(Disk[files[k]].lines, nm,
                                         NameOrUnknown(detectLanguage(files[k])),
                                         Disk[files[k]].rel)
             IN  [i \in 1..Len(cs) |-> <<cs[i].functionName, cs[i].path>>]
        ELSE <<>>)
       \o CallersOver(files, k + 1, nm)

\* C27: a request over a root with an unreadable entry does not fail; the
\* root lookup returns the first match of the readable files, and the
\* callers of the root are those of the readable files of the corpus, in
\* order, the files after the unreadable one included.
C27_UnreadableSkipped ==
  \A r \in Reqs :
     HasUnreadable(input[r]) =>
        /\ st[r] # "failed"
        /\ AtPc(r, "t_root") =>
              LET m == FirstMatch(Lookup(r))
              IN  IF ret[r].id = Null THEN ~m.found
                  ELSE m.found /\ heap[ret[r].id].path = m.path
                               /\ heap[ret[r].id].line = m.line
        /\ (st[r] = "done" /\ rootNode[r] # Null /\ ~cut[r].hit
              /\ input[r].direction # "callees" /\ input[r].maxDepth >= 1) =>
              [i \in 1..Len(heap[rootNode[r]].callers) |->
                 <<heap[heap[rootNode[r]].callers[i]].functionName,
                   heap[heap[rootNode[r]].callers[i]].path>>]
                = CallersOver(Corpus(input[r]), 1, input[r].functionName)

\* the unreadable entry lib comes before m.js in the corpus, and the caller
\* m of g from m.js is in the finished tree
C27_Witness ==
  \E r \in Reqs :
     /\ st[r] = "done" /\ rootNode[r] # Null
     /\ input[r].functionName = "g"
     /\ \E j, k \in 1..Len(Corpus(input[r])) :
           /\ j < k
           /\ ~Disk[Corpus(input[r])[j]].readable
           /\ Disk[Corpus(input[r])[k]].rel = "m.js"
     /\ \E i \in 1..Len(heap[rootNode[r]].callers) :
           heap[heap[rootNode[r]].callers[i]].path = "m.js"

\* C28: at every entry of findCallers or findCallees the key of the
\* invocation is not in the visited set, and every key in the set carries a
\* depth strictly smaller than the current depth.
C28_CycleBranchDead ==
  \A r \in Reqs :
     (AtPc(r, "fc_entry") \/ AtPc(r, "fe_entry")) =>
        /\ NodeKey(heap, Top(r).node, Top(r).depth) \notin visited[r]
        /\ \A key \in visited[r] : key[3] < Top(r).depth

\* an entry for a node whose path and name are those of an active ancestor,
\* below maxDepth and before the timeout
C28_Witness ==
  \E r \in Reqs :
     /\ AtPc(r, "fc_entry") \/ AtPc(r, "fe_entry")
     /\ Top(r).depth < input[r].maxDepth
     /\ ~TimedOut(r)
     /\ \E key \in visited[r] :
           /\ key[1] = heap[Top(r).node].path
           /\ key[2] = heap[Top(r).node].functionName

\* C29: for every key of the extension map and every extension mapped to
\* it, a request with languages = [key] admits a file with that extension.
C29_StagesAgree ==
  (/\ stack[1] # <<>> /\ Top(1).pc = "lf_return"
   /\ Top(1).language \in ExtensionMapKeys
   /\ Top(1).name \in Range(extensionMap(Top(1).language)))
  => Top(1).acc[1]

\* C30: a placeholder node (path 'external', language 'unknown') is always
\* a leaf of the returned structure: its callers and callees are empty.
C30_PlaceholderIsLeaf ==
  \A r \in Reqs :
     Returned(r) =>
        \A n \in Reach(heap, rootNode[r]) :
           (heap[n].path = "external" /\ heap[n].language = "unknown") =>
              /\ heap[n].callers = <<>>
              /\ heap[n].callees = <<>>

====
